---- MODULE Spec2Model ----
(***************************************************************************)
(* Model of speech_to_text_backend.py: the Flask request handlers          *)
(* (receive_audio, get_transcription, set_mode) running on concurrent      *)
(* request threads, and the single speech_recognition_worker thread,       *)
(* sharing web_online_mode, audio_chunk_queue (lock + condition) and       *)
(* latest_transcription_result (lock).  A `with lock:` block of a request   *)
(* handler is one step, taken when the lock is free; the worker's blocks   *)
(* are two steps (acquire, body) so that the lock it holds is visible.     *)
(* Spec and LiveSpec are the concurrent backend; ModeSpec is one client     *)
(* sending POST /mode requests back to back with nothing else running.     *)
(***************************************************************************)
EXTENDS Integers, Sequences, FiniteSets, TLC

\* ---- bounds of the model ------------------------------------------------
MaxChunks == 2
MaxText == 1
NumHandlers == 2

\* ---- threads --------------------------------------------------------------
Handlers == 1..NumHandlers
Worker == 0
NoOwner == -1

\* ---- values ---------------------------------------------------------------
Texts == {ToString(i) : i \in 1..MaxText}
IdleResult == [status |-> "idle", text |-> ""]
SuccessResult(t) == [status |-> "success", text |-> t]
NoChunk == [id |-> 0, data |-> "none"]
NoRet == [code |-> 0, body |-> "none", text |-> ""]

\* the observer of POST /mode runs: switched off, or the stage of a run of
\* calls (1: first call running, 2: first returned, 3: second call with the
\* same body running, 4: second returned) with the body and the state and
\* response the first call ended with
NoSnap == [mode |-> FALSE, queue |-> <<>>, slot |-> IdleResult, resp |-> "none"]
Off == [n |-> -1, body |-> "none", snap |-> NoSnap]
NoRun == [n |-> 0, body |-> "none", snap |-> NoSnap]

\* request bodies: the JSON of POST /audio and POST /mode as the handlers see it
AudioBodies == {"missing", "badb64", "empty", "data"}
ModeBodies == {"missing", "true", "false", "str_false"}

\* base64.b64decode(data['audio_chunk']): bytes (b"" or non-empty) or an exception
b64decode(body) == IF body = "empty" THEN "empty" ELSE IF body = "data" THEN "data" ELSE "raise"

\* bool(data['online_mode']): Python truthiness of the JSON value
PyBool(body) == body \in {"true", "str_false"}

\* truthiness of current_audio_chunk: None and b"" are both falsy
Truthy(chunk) == chunk.data = "data"

VARIABLES
  web_online_mode,               \* the mode flag
  audio_chunk_queue,             \* list of pending chunks
  audio_chunk_queue_lock,        \* owner of the queue lock
  latest_transcription_result,   \* the result slot
  latest_transcription_lock,     \* owner of the result lock
  wpc,                           \* position of speech_recognition_worker
  current_audio_chunk,           \* the worker's local
  text,                          \* the worker's local: recognize_google's result
  hpc,                           \* position of each request thread
  audio_data,                    \* receive_audio's local per request thread
  ret,                           \* the response sent by the step just taken, if any
  nextId,                        \* history: number of chunks appended so far
  dequeued,                      \* history: ids popped by the worker, in order
  cleared,                       \* history: ids removed by audio_chunk_queue.clear()
  attempts,                      \* history: per chunk, times it entered decode
  slotSrc,                       \* history: id of the chunk whose publish is in the slot
  returned,                      \* history: per chunk, polls that returned its publish
  failed,                        \* history: ids whose decode or recognition raised
  published,                     \* history: ids whose text the worker wrote to the slot, in order
  modeRun                        \* observer of back-to-back POST /mode calls (sequential runs only)

vars == <<web_online_mode, audio_chunk_queue, audio_chunk_queue_lock,
          latest_transcription_result, latest_transcription_lock,
          wpc, current_audio_chunk, text, hpc, audio_data,
          nextId, dequeued, cleared, attempts, slotSrc, returned, failed,
          published, modeRun>>

sharedVars == <<web_online_mode, audio_chunk_queue, audio_chunk_queue_lock,
                latest_transcription_result, latest_transcription_lock>>
workerVars == <<wpc, current_audio_chunk, text>>
histVars == <<nextId, dequeued, cleared, attempts, slotSrc, returned, failed, published>>

Ids == 1..MaxChunks

Init ==
  /\ web_online_mode = FALSE
  /\ audio_chunk_queue = <<>>
  /\ audio_chunk_queue_lock = NoOwner
  /\ latest_transcription_result = IdleResult
  /\ latest_transcription_lock = NoOwner
  /\ wpc = "w_lock"
  /\ current_audio_chunk = NoChunk
  /\ text = ""
  /\ hpc = [h \in Handlers |-> "idle"]
  /\ audio_data = [h \in Handlers |-> "none"]
  /\ ret = NoRet
  /\ nextId = 0
  /\ dequeued = <<>>
  /\ cleared = {}
  /\ attempts = [c \in Ids |-> 0]
  /\ slotSrc = 0
  /\ returned = [c \in Ids |-> 0]
  /\ failed = {}
  /\ published = <<>>
  /\ modeRun = Off

\* chunks a request thread has decoded but not yet appended
InFlight == Cardinality({h \in Handlers : hpc[h] = "a_lock"})

\* audio_chunk_queue_cv.notify(): wakes the worker if it is waiting
notify(p) == IF p = "w_wait" THEN "w_woken" ELSE p

\* ---- POST /audio ------------------------------------------------------------
\* variant: the handler without the mode check of line 97
receive_audio_nocheck(h) ==
  /\ hpc[h] = "idle"
  /\ \E body \in AudioBodies :
       IF body = "missing"
         THEN /\ ret' = [code |-> 400, body |-> "No audio_chunk provided", text |-> ""]
              /\ UNCHANGED <<hpc, audio_data>>
       ELSE IF b64decode(body) = "raise"
         THEN /\ ret' = [code |-> 400, body |-> "Error decoding audio data", text |-> ""]
              /\ UNCHANGED <<hpc, audio_data>>
       ELSE /\ nextId + InFlight < MaxChunks
            /\ hpc' = [hpc EXCEPT ![h] = "a_lock"]
            /\ audio_data' = [audio_data EXCEPT ![h] = b64decode(body)]
            /\ ret' = NoRet
  /\ UNCHANGED <<sharedVars, workerVars, histVars, modeRun>>

\* lines 97-107: the unlocked read of web_online_mode, the field check and
\* the base64 decode
receive_audio(h) ==
  /\ hpc[h] = "idle"
  /\ IF ~web_online_mode
       THEN /\ ret' = [code |-> 400, body |-> "Online mode is not active", text |-> ""]
            /\ UNCHANGED <<hpc, audio_data>>
       ELSE \E body \in AudioBodies :
              IF body = "missing"
                THEN /\ ret' = [code |-> 400, body |-> "No audio_chunk provided", text |-> ""]
                     /\ UNCHANGED <<hpc, audio_data>>
              ELSE IF b64decode(body) = "raise"
                THEN /\ ret' = [code |-> 400, body |-> "Error decoding audio data", text |-> ""]
                     /\ UNCHANGED <<hpc, audio_data>>
              ELSE /\ nextId + InFlight < MaxChunks
                   /\ hpc' = [hpc EXCEPT ![h] = "a_lock"]
                   /\ audio_data' = [audio_data EXCEPT ![h] = b64decode(body)]
                   /\ ret' = NoRet
  /\ UNCHANGED <<sharedVars, workerVars, histVars, modeRun>>

\* variant: the chunk is appended twice
Appended_twice(q, chunk) == Append(Append(q, chunk), chunk)

\* line 111: audio_chunk_queue.append(audio_data)
Appended(q, chunk) == Append(q, chunk)

\* lines 110-114: with audio_chunk_queue_lock (taken when it is free and
\* released in the same step): append, notify; then return 200
receive_audio_append(h) ==
  /\ hpc[h] = "a_lock"
  /\ audio_chunk_queue_lock = NoOwner
  /\ audio_chunk_queue' = Appended(audio_chunk_queue, [id |-> nextId + 1, data |-> audio_data[h]])
  /\ nextId' = nextId + 1
  /\ wpc' = notify(wpc)
  /\ UNCHANGED audio_chunk_queue_lock
  /\ hpc' = [hpc EXCEPT ![h] = "idle"]
  /\ audio_data' = [audio_data EXCEPT ![h] = "none"]
  /\ ret' = [code |-> 200, body |-> "Audio chunk received", text |-> ""]
  /\ UNCHANGED <<web_online_mode, latest_transcription_result, latest_transcription_lock,
                 current_audio_chunk, text, dequeued, cleared, attempts, slotSrc, returned, failed,
                 published, modeRun>>

\* ---- GET /transcription -------------------------------------------------------
\* variant: the poll forgets to reset the slot
KeepOnPoll(r) == r

\* line 125: the slot after a poll
ResetOnPoll(r) == IdleResult

\* lines 122-126: with latest_transcription_lock (taken when it is free and
\* released in the same step): read the slot, reset it, return the value read
get_transcription(h) ==
  /\ hpc[h] = "idle"
  /\ latest_transcription_lock = NoOwner
  /\ ret' = [code |-> 200, body |-> latest_transcription_result.status,
             text |-> latest_transcription_result.text]
  /\ latest_transcription_result' = ResetOnPoll(latest_transcription_result)
  /\ returned' = IF latest_transcription_result.status = "success" /\ slotSrc # 0
                   THEN [returned EXCEPT ![slotSrc] = IF @ < 2 THEN @ + 1 ELSE @]
                   ELSE returned
  /\ slotSrc' = IF latest_transcription_result' = IdleResult THEN 0 ELSE slotSrc
  /\ UNCHANGED <<web_online_mode, audio_chunk_queue, audio_chunk_queue_lock,
                 latest_transcription_lock, hpc, workerVars, audio_data,
                 nextId, dequeued, cleared, attempts, failed, published, modeRun>>

\* ---- POST /mode --------------------------------------------------------------
\* the observer when a call with this body starts: a second call with the body of
\* the call that has just returned continues the run, any other call starts one
RunStart(body) ==
  IF modeRun = Off THEN Off
  ELSE IF body = "missing" THEN NoRun
  ELSE IF modeRun.n = 2 /\ modeRun.body = body THEN [modeRun EXCEPT !.n = 3]
  ELSE [n |-> 1, body |-> body, snap |-> NoSnap]

\* the observer when the call returns resp: the first call's end state is kept
RunEnd(resp) ==
  IF modeRun.n = 1
    THEN [modeRun EXCEPT !.n = 2,
                         !.snap = [mode |-> web_online_mode, queue |-> audio_chunk_queue,
                                   slot |-> latest_transcription_result, resp |-> resp]]
  ELSE IF modeRun.n = 3 THEN [modeRun EXCEPT !.n = 4]
  ELSE modeRun

\* lines 131-136: the field check and the unlocked write of web_online_mode
\* variant: data.get('online_mode') read before the field check, so that a
\* missing field is applied as False and then answered with 400
set_mode_with_get(h, body) ==
  /\ hpc[h] = "idle"
  /\ IF body = "missing"
       THEN /\ ret' = [code |-> 400, body |-> "No online_mode provided", text |-> ""]
            /\ web_online_mode' = FALSE
            /\ UNCHANGED hpc
       ELSE /\ web_online_mode' = PyBool(body)
            /\ hpc' = [hpc EXCEPT ![h] = "m_test"]
            /\ ret' = NoRet
  /\ modeRun' = RunStart(body)
  /\ UNCHANGED <<audio_chunk_queue, audio_chunk_queue_lock, latest_transcription_result,
                 latest_transcription_lock, workerVars, audio_data, histVars>>

set_mode_with(h, body) ==
  /\ hpc[h] = "idle"
  /\ IF body = "missing"
       THEN /\ ret' = [code |-> 400, body |-> "No online_mode provided", text |-> ""]
            /\ UNCHANGED <<hpc, web_online_mode>>
       ELSE /\ web_online_mode' = PyBool(body)
            /\ hpc' = [hpc EXCEPT ![h] = "m_test"]
            /\ ret' = NoRet
  /\ modeRun' = RunStart(body)
  /\ UNCHANGED <<audio_chunk_queue, audio_chunk_queue_lock, latest_transcription_result,
                 latest_transcription_lock, workerVars, audio_data, histVars>>

set_mode(h) == \E body \in ModeBodies : set_mode_with(h, body)

\* line 139: if not web_online_mode (a second read of the global)
set_mode_test(h) ==
  /\ hpc[h] = "m_test"
  /\ hpc' = [hpc EXCEPT ![h] = IF ~web_online_mode THEN "m_qlock" ELSE "m_ret"]
  /\ UNCHANGED <<sharedVars, workerVars, audio_data, histVars, modeRun>>
  /\ ret' = NoRet

\* variant: audio_chunk_queue.pop(0) where the code has clear()
set_mode_clear_head(h) ==
  /\ hpc[h] = "m_qlock"
  /\ audio_chunk_queue_lock = NoOwner
  /\ audio_chunk_queue' = IF audio_chunk_queue = <<>> THEN <<>> ELSE Tail(audio_chunk_queue)
  /\ cleared' = IF audio_chunk_queue = <<>> THEN cleared ELSE cleared \cup {Head(audio_chunk_queue).id}
  /\ hpc' = [hpc EXCEPT ![h] = "m_rlock"]
  /\ UNCHANGED <<web_online_mode, audio_chunk_queue_lock, latest_transcription_result, latest_transcription_lock,
                 workerVars, audio_data, nextId, dequeued, attempts, slotSrc, returned, failed,
                 published, modeRun>>
  /\ ret' = NoRet

\* lines 140-141: with audio_chunk_queue_lock (taken when it is free and
\* released in the same step): audio_chunk_queue.clear(); no notify
set_mode_clear(h) ==
  /\ hpc[h] = "m_qlock"
  /\ audio_chunk_queue_lock = NoOwner
  /\ audio_chunk_queue' = <<>>
  /\ cleared' = cleared \cup {audio_chunk_queue[i].id : i \in 1..Len(audio_chunk_queue)}
  /\ hpc' = [hpc EXCEPT ![h] = "m_rlock"]
  /\ UNCHANGED <<web_online_mode, audio_chunk_queue_lock, latest_transcription_result, latest_transcription_lock,
                 workerVars, audio_data, nextId, dequeued, attempts, slotSrc, returned, failed,
                 published, modeRun>>
  /\ ret' = NoRet

\* line 143: set_mode declares only web_online_mode global (line 130), so the
\* assignment binds a local name and the module-level slot keeps its value;
\* lines 142-143 run with latest_transcription_lock, taken when it is free and
\* released in the same step
ResetOnOffline(r) == r

set_mode_reset(h) ==
  /\ hpc[h] = "m_rlock"
  /\ latest_transcription_lock = NoOwner
  /\ latest_transcription_result' = ResetOnOffline(latest_transcription_result)
  /\ slotSrc' = IF latest_transcription_result' = IdleResult THEN 0 ELSE slotSrc
  /\ hpc' = [hpc EXCEPT ![h] = "m_ret"]
  /\ UNCHANGED <<web_online_mode, audio_chunk_queue, audio_chunk_queue_lock,
                 latest_transcription_lock,
                 workerVars, audio_data, nextId, dequeued, cleared, attempts, returned, failed,
                 published, modeRun>>
  /\ ret' = NoRet

\* line 145: the response carries the value of the global at return time
set_mode_return(h) ==
  /\ hpc[h] = "m_ret"
  /\ ret' = [code |-> 200,
             body |-> IF web_online_mode THEN "online_mode: true" ELSE "online_mode: false",
             text |-> ""]
  /\ hpc' = [hpc EXCEPT ![h] = "idle"]
  /\ modeRun' = RunEnd(ret'.body)
  /\ UNCHANGED <<sharedVars, workerVars, audio_data, histVars>>

\* ---- speech_recognition_worker ---------------------------------------------
\* lines 154-155: current_audio_chunk = None; with audio_chunk_queue_lock
worker_lock ==
  /\ wpc = "w_lock"
  /\ audio_chunk_queue_lock = NoOwner
  /\ audio_chunk_queue_lock' = Worker
  /\ wpc' = "w_check"
  /\ UNCHANGED <<web_online_mode, audio_chunk_queue, latest_transcription_result,
                 latest_transcription_lock, current_audio_chunk, text,
                 hpc, audio_data, histVars, modeRun>>
  /\ ret' = NoRet

\* line 158: a notified wait() re-acquires the lock before it returns
worker_wake ==
  /\ wpc = "w_woken"
  /\ audio_chunk_queue_lock = NoOwner
  /\ audio_chunk_queue_lock' = Worker
  /\ wpc' = "w_check"
  /\ UNCHANGED <<web_online_mode, audio_chunk_queue, latest_transcription_result,
                 latest_transcription_lock, current_audio_chunk, text,
                 hpc, audio_data, histVars, modeRun>>
  /\ ret' = NoRet

\* variant: list.pop() takes the last element
pop_last(q) == [chunk |-> q[Len(q)], rest |-> SubSeq(q, 1, Len(q) - 1)]

\* variant: audio_chunk_queue[0] read without removing it
pop_peek(q) == [chunk |-> Head(q), rest |-> q]

\* line 161: audio_chunk_queue.pop(0)
pop0(q) == [chunk |-> Head(q), rest |-> Tail(q)]

\* variant: the rest of the loop body indented under the with block, so that the
\* queue lock is still held after the pop
worker_check_hold ==
  /\ wpc = "w_check"
  /\ IF audio_chunk_queue = <<>> /\ web_online_mode
       THEN /\ wpc' = "w_wait"
            /\ audio_chunk_queue_lock' = NoOwner
            /\ UNCHANGED <<audio_chunk_queue, current_audio_chunk, dequeued>>
       ELSE /\ wpc' = "w_test"
            /\ audio_chunk_queue_lock' = Worker
            /\ IF audio_chunk_queue # <<>>
                 THEN /\ current_audio_chunk' = pop0(audio_chunk_queue).chunk
                      /\ audio_chunk_queue' = pop0(audio_chunk_queue).rest
                      /\ dequeued' = Append(dequeued, pop0(audio_chunk_queue).chunk.id)
                 ELSE UNCHANGED <<audio_chunk_queue, current_audio_chunk, dequeued>>
  /\ UNCHANGED <<web_online_mode, latest_transcription_result, latest_transcription_lock,
                 text, hpc, audio_data, nextId, cleared, attempts, slotSrc, returned, failed,
                 published, modeRun>>
  /\ ret' = NoRet

\* lines 157-161, lock held: wait (releasing the lock) while the queue is empty
\* and the mode is online; otherwise pop the head if there is one and release
worker_check ==
  /\ wpc = "w_check"
  /\ audio_chunk_queue_lock' = NoOwner
  /\ IF audio_chunk_queue = <<>> /\ web_online_mode
       THEN /\ wpc' = "w_wait"
            /\ UNCHANGED <<audio_chunk_queue, current_audio_chunk, dequeued>>
       ELSE /\ wpc' = "w_test"
            /\ IF audio_chunk_queue # <<>>
                 THEN /\ current_audio_chunk' = pop0(audio_chunk_queue).chunk
                      /\ audio_chunk_queue' = pop0(audio_chunk_queue).rest
                      /\ dequeued' = Append(dequeued, pop0(audio_chunk_queue).chunk.id)
                 ELSE UNCHANGED <<audio_chunk_queue, current_audio_chunk, dequeued>>
  /\ UNCHANGED <<web_online_mode, latest_transcription_result, latest_transcription_lock,
                 text, hpc, audio_data, nextId, cleared, attempts, slotSrc, returned, failed,
                 published, modeRun>>
  /\ ret' = NoRet

\* variant: if current_audio_chunk, without the mode
worker_test_nomode ==
  /\ wpc = "w_test"
  /\ IF Truthy(current_audio_chunk)
       THEN /\ wpc' = "w_decode"
            /\ attempts' = [attempts EXCEPT ![current_audio_chunk.id] = IF @ < 2 THEN @ + 1 ELSE @]
       ELSE /\ wpc' = "w_sleep"
            /\ UNCHANGED attempts
  /\ UNCHANGED <<sharedVars, current_audio_chunk, text, hpc, audio_data,
                 nextId, dequeued, cleared, slotSrc, returned, failed, published, modeRun>>
  /\ ret' = NoRet

\* line 163: if current_audio_chunk and web_online_mode (unlocked read)
worker_test ==
  /\ wpc = "w_test"
  /\ IF Truthy(current_audio_chunk) /\ web_online_mode
       THEN /\ wpc' = "w_decode"
            /\ attempts' = [attempts EXCEPT ![current_audio_chunk.id] = IF @ < 2 THEN @ + 1 ELSE @]
       ELSE /\ wpc' = "w_sleep"
            /\ UNCHANGED attempts
  /\ UNCHANGED <<sharedVars, current_audio_chunk, text, hpc, audio_data,
                 nextId, dequeued, cleared, slotSrc, returned, failed, published, modeRun>>
  /\ ret' = NoRet

RecognizeFailures == {"UnknownValueError", "RequestError", "CouldntDecodeError", "Exception"}

\* variant: an except clause that reports the failure through the slot
worker_recognize_report ==
  /\ wpc = "w_decode"
  /\ \/ /\ wpc' = "w_backoff"
        /\ failed' = failed \cup {current_audio_chunk.id}
        /\ UNCHANGED <<current_audio_chunk, text, latest_transcription_result>>
     \/ \E t \in Texts :
          /\ text' = t
          /\ wpc' = "w_publock"
          /\ UNCHANGED <<current_audio_chunk, failed, latest_transcription_result>>
     \/ \E failure \in RecognizeFailures :
          /\ wpc' = "w_lock"
          /\ current_audio_chunk' = NoChunk
          /\ failed' = failed \cup {current_audio_chunk.id}
          /\ latest_transcription_result' = [status |-> "error", text |-> ""]
          /\ UNCHANGED text
  /\ UNCHANGED <<web_online_mode, audio_chunk_queue, audio_chunk_queue_lock,
                 latest_transcription_lock, hpc, audio_data,
                 nextId, dequeued, cleared, attempts, slotSrc, returned, published, modeRun>>
  /\ ret' = NoRet

\* lines 166-195, no shared state read or written: AudioSegment.from_raw /
\* export / recognizer.record, where an exception is outside the inner try and
\* lands in the outer except; then recognize_google, which returns a text or
\* raises, and every except clause only prints or passes and the loop starts over
worker_recognize ==
  /\ wpc = "w_decode"
  /\ \/ /\ wpc' = "w_backoff"
        /\ failed' = failed \cup {current_audio_chunk.id}
        /\ UNCHANGED <<current_audio_chunk, text>>
     \/ \E t \in Texts :
          /\ text' = t
          /\ wpc' = "w_publock"
          /\ UNCHANGED <<current_audio_chunk, failed>>
     \/ \E failure \in RecognizeFailures :
          /\ wpc' = "w_lock"
          /\ current_audio_chunk' = NoChunk
          /\ failed' = failed \cup {current_audio_chunk.id}
          /\ UNCHANGED text
  /\ UNCHANGED <<sharedVars, hpc, audio_data,
                 nextId, dequeued, cleared, attempts, slotSrc, returned, published, modeRun>>
  /\ ret' = NoRet

\* line 185: with latest_transcription_lock
worker_publock ==
  /\ wpc = "w_publock"
  /\ latest_transcription_lock = NoOwner
  /\ latest_transcription_lock' = Worker
  /\ wpc' = "w_publish"
  /\ UNCHANGED <<web_online_mode, audio_chunk_queue, audio_chunk_queue_lock,
                 latest_transcription_result, current_audio_chunk, text,
                 hpc, audio_data, histVars, modeRun>>
  /\ ret' = NoRet

\* variant: a publish that keeps a text the client has not polled yet
worker_publish_keep ==
  /\ wpc = "w_publish"
  /\ latest_transcription_result' =
       IF latest_transcription_result.status = "success"
         THEN latest_transcription_result ELSE SuccessResult(text)
  /\ slotSrc' = IF latest_transcription_result.status = "success"
                  THEN slotSrc ELSE current_audio_chunk.id
  /\ latest_transcription_lock' = NoOwner
  /\ wpc' = "w_lock"
  /\ current_audio_chunk' = NoChunk
  /\ text' = ""
  /\ published' = Append(published, current_audio_chunk.id)
  /\ UNCHANGED <<web_online_mode, audio_chunk_queue, audio_chunk_queue_lock,
                 hpc, audio_data, nextId, dequeued, cleared, attempts, returned, failed, modeRun>>
  /\ ret' = NoRet

\* variant: a publish that leaves latest_transcription_lock held
worker_publish_hold ==
  /\ wpc = "w_publish"
  /\ latest_transcription_result' = SuccessResult(text)
  /\ slotSrc' = current_audio_chunk.id
  /\ latest_transcription_lock' = Worker
  /\ wpc' = "w_lock"
  /\ current_audio_chunk' = NoChunk
  /\ text' = ""
  /\ published' = Append(published, current_audio_chunk.id)
  /\ UNCHANGED <<web_online_mode, audio_chunk_queue, audio_chunk_queue_lock,
                 hpc, audio_data, nextId, dequeued, cleared, attempts, returned, failed, modeRun>>
  /\ ret' = NoRet

\* line 186: the publish; web_online_mode is not read again
worker_publish ==
  /\ wpc = "w_publish"
  /\ latest_transcription_result' = SuccessResult(text)
  /\ slotSrc' = current_audio_chunk.id
  /\ latest_transcription_lock' = NoOwner
  /\ wpc' = "w_lock"
  /\ current_audio_chunk' = NoChunk
  /\ text' = ""
  /\ published' = Append(published, current_audio_chunk.id)
  /\ UNCHANGED <<web_online_mode, audio_chunk_queue, audio_chunk_queue_lock,
                 hpc, audio_data, nextId, dequeued, cleared, attempts, returned, failed, modeRun>>
  /\ ret' = NoRet

\* line 197: time.sleep(0.05) when there is no chunk to process or the mode is off
worker_sleep ==
  /\ wpc = "w_sleep"
  /\ wpc' = "w_lock"
  /\ current_audio_chunk' = NoChunk
  /\ UNCHANGED <<sharedVars, text, hpc, audio_data, histVars, modeRun>>
  /\ ret' = NoRet

\* lines 199-201: the outer except prints and sleeps one second
worker_backoff ==
  /\ wpc = "w_backoff"
  /\ wpc' = "w_lock"
  /\ current_audio_chunk' = NoChunk
  /\ UNCHANGED <<sharedVars, text, hpc, audio_data, histVars, modeRun>>
  /\ ret' = NoRet

speech_recognition_worker ==
  \/ worker_lock
  \/ worker_wake
  \/ worker_check
  \/ worker_test
  \/ worker_recognize
  \/ worker_publock
  \/ worker_publish
  \/ worker_sleep
  \/ worker_backoff

Request(h) ==
  \/ receive_audio(h)
  \/ receive_audio_append(h)
  \/ get_transcription(h)
  \/ set_mode(h)
  \/ set_mode_test(h)
  \/ set_mode_clear(h)
  \/ set_mode_reset(h)
  \/ set_mode_return(h)

Next ==
  \/ \E h \in Handlers : Request(h)
  \/ speech_recognition_worker

Spec == Init /\ [][Next]_vars

\* ---- fairness ------------------------------------------------------------------
\* a request thread that has started a request runs it to its response
Continue(h) ==
  \/ receive_audio_append(h)
  \/ set_mode_test(h)
  \/ set_mode_clear(h)
  \/ set_mode_reset(h)
  \/ set_mode_return(h)

\* the worker thread is scheduled (weak fairness on its steps), a blocked
\* acquire succeeds if the lock is released again and again (strong fairness
\* on the three acquisitions), and request threads finish their requests
Fairness ==
  /\ WF_vars(worker_check \/ worker_test \/ worker_recognize
             \/ worker_publish \/ worker_sleep \/ worker_backoff)
  /\ SF_vars(worker_lock)
  /\ SF_vars(worker_wake)
  /\ SF_vars(worker_publock)
  /\ \A h \in Handlers : WF_vars(Continue(h))

LiveSpec == Init /\ [][Next]_vars /\ Fairness

\* ---- POST /mode calls one after the other --------------------------------------
\* A single client that sends POST /mode requests back to back while nothing
\* else runs: the start is any state the backend can be in between requests
\* (d chunks popped, the rest of the n appended ones queued, the slot idle or
\* holding a text, the worker about to take the queue lock), the steps are the
\* steps of set_mode on one request thread, and the observer is on.
ModeClient == 1

ChunkData == {"empty", "data"}

ModeInit ==
  /\ web_online_mode \in BOOLEAN
  /\ \E n \in 0..MaxChunks : \E d \in 0..n : \E dat \in [Ids -> ChunkData] :
       /\ nextId = n
       /\ dequeued = [i \in 1..d |-> i]
       /\ audio_chunk_queue = [i \in 1..(n - d) |-> [id |-> d + i, data |-> dat[d + i]]]
       /\ \A c \in Ids : c > n => dat[c] = "data"
       /\ \/ latest_transcription_result = IdleResult /\ slotSrc = 0 /\ published = <<>>
          \/ /\ d > 0
             /\ \E t \in Texts : latest_transcription_result = SuccessResult(t)
             /\ slotSrc = d
             /\ published = <<d>>
       /\ attempts = [c \in Ids |-> IF c = slotSrc THEN 1 ELSE 0]
  /\ audio_chunk_queue_lock = NoOwner
  /\ latest_transcription_lock = NoOwner
  /\ wpc = "w_lock"
  /\ current_audio_chunk = NoChunk
  /\ text = ""
  /\ hpc = [h \in Handlers |-> "idle"]
  /\ audio_data = [h \in Handlers |-> "none"]
  /\ ret = NoRet
  /\ cleared = {}
  /\ returned = [c \in Ids |-> 0]
  /\ failed = {}
  /\ modeRun = NoRun

ModeNext ==
  \/ set_mode(ModeClient)
  \/ set_mode_test(ModeClient)
  \/ set_mode_clear(ModeClient)
  \/ set_mode_reset(ModeClient)
  \/ set_mode_return(ModeClient)

ModeSpec == ModeInit /\ [][ModeNext]_vars

\* ---- helpers of the properties ---------------------------------------------------
InSeq(x, sq) == \E i \in 1..Len(sq) : sq[i] = x
Count(x, sq) == Cardinality({i \in 1..Len(sq) : sq[i] = x})
QueueIds == [i \in 1..Len(audio_chunk_queue) |-> audio_chunk_queue[i].id]

\* a POST /mode call has written the flag and has not returned yet
ModeCallPending ==
  \E h \in Handlers : hpc[h] \in {"m_test", "m_qlock", "m_rlock", "m_ret"}

\* the worker step just taken ended an attempt in a failure
FailStep ==
  \/ wpc = "w_decode" /\ wpc' = "w_backoff"
  \/ wpc = "w_decode" /\ wpc' = "w_lock"

\* ---- C1 ----------------------------------------------------------------------------
\* C1: once the POST /mode calls have returned and while the flag is false,
\* audio_chunk_queue is empty, whatever receive_audio requests race the transition.
C1_OfflineQueueEmpty ==
  (~web_online_mode /\ ~ModeCallPending) => audio_chunk_queue = <<>>

\* ---- C2 ----------------------------------------------------------------------------
\* C2: the offline branch of set_mode leaves the result slot at {idle, ""}: the step
\* that executes its reset (line 143) ends with the slot idle.
C2_OfflineResetsSlot ==
  [][\A h \in Handlers :
       (hpc[h] = "m_rlock" /\ hpc'[h] = "m_ret") => latest_transcription_result' = IdleResult]_vars

\* ---- C3 ----------------------------------------------------------------------------
\* C3: the worker dequeues chunks in the order they were appended (ids number the
\* appends); with no clear in between, the dequeues are exactly the first appends.
C3_FIFO ==
  /\ \A i, j \in 1..Len(dequeued) : i < j => dequeued[i] < dequeued[j]
  /\ cleared = {} => \A i \in 1..Len(dequeued) : dequeued[i] = i

C3_Witness == Len(dequeued) >= 2 /\ cleared = {}

\* ---- C4 ----------------------------------------------------------------------------
\* C4: a poll returns the slot and resets it to {idle, ""} in the same step, and no
\* publish of the worker is returned by two polls.
C4_DestructiveRead ==
  /\ (ret.code = 200 /\ ret.body \in {"idle", "success"}) => latest_transcription_result = IdleResult
  /\ \A c \in Ids : returned[c] <= 1

C4_Witness == ret.code = 200 /\ ret.body = "idle" /\ \E c \in Ids : returned[c] = 1

\* ---- C5 ----------------------------------------------------------------------------
\* C5: a POST /audio that reads the mode as offline answers 400 and is over: it
\* leaves audio_chunk_queue as it was and holds no chunk to append later,
\* whatever its body.
C5_RejectOffline ==
  [][\A h \in Handlers :
       (receive_audio(h) /\ ~web_online_mode) =>
         /\ ret'.code = 400
         /\ hpc'[h] = "idle"
         /\ audio_data'[h] = "none"
         /\ audio_chunk_queue' = audio_chunk_queue]_vars

C5_Witness == ret.body = "Online mode is not active" /\ ~web_online_mode /\ nextId > 0

\* ---- C6 ----------------------------------------------------------------------------
\* C6: the worker writes {success, text} into the slot only while web_online_mode
\* is true.
C6_PublishOnlyOnline ==
  [][(wpc = "w_publish" /\ wpc' = "w_lock") => web_online_mode]_vars

\* ---- C8 ----------------------------------------------------------------------------
\* C8: an attempt that ends in a failure (decode, unknown value, request error, any
\* other exception) leaves the result slot as it was.
C8_FailureKeepsSlot ==
  [][FailStep => /\ latest_transcription_result' = latest_transcription_result
                 /\ slotSrc' = slotSrc]_vars

C8_Witness ==
  /\ failed # {}
  /\ latest_transcription_result.status = "success"
  /\ wpc = "w_backoff"

\* ---- C10 ---------------------------------------------------------------------------
\* C10: every appended chunk is in exactly one place: still queued (once), popped
\* by the worker (once) or removed by a clear; a chunk is attempted at most once and
\* only after its dequeue.
C10_Conservation ==
  /\ \A c \in 1..nextId :
       /\ Count(c, QueueIds) + Count(c, dequeued) + (IF c \in cleared THEN 1 ELSE 0) = 1
       /\ attempts[c] <= 1
       /\ attempts[c] = 1 => InSeq(c, dequeued)
  /\ \A c \in Ids : c > nextId =>
       ~InSeq(c, QueueIds) /\ ~InSeq(c, dequeued) /\ c \notin cleared /\ attempts[c] = 0

C10_Witness ==
  /\ cleared # {}
  /\ Len(dequeued) >= 1
  /\ \E c \in Ids : attempts[c] = 1

\* ---- C7 ----------------------------------------------------------------------------
\* C7: while the mode stays online every appended chunk is eventually popped by the
\* worker, and a text returned by recognize_google eventually is in the slot.
C7_Pipeline ==
  /\ \A c \in Ids : InSeq(c, QueueIds) ~> (~web_online_mode \/ InSeq(c, dequeued))
  /\ \A t \in Texts :
       (wpc = "w_publock" /\ text = t) ~>
         (~web_online_mode \/ latest_transcription_result = SuccessResult(t))

\* ---- C9 ----------------------------------------------------------------------------
\* C9: after a failed attempt the worker goes on: while the mode stays online every
\* chunk appended after the failing one is eventually dequeued and attempted.
C9_WorkerGoesOn ==
  \A f, c \in Ids :
    (f \in failed /\ f < c /\ InSeq(c, QueueIds)) ~>
      (~web_online_mode \/ (InSeq(c, dequeued) /\ attempts[c] >= 1))

\* ---- C11 ---------------------------------------------------------------------------
\* C11: a request answered 400 for a missing audio_chunk field, an undecodable
\* base64 body or a missing online_mode field leaves the queue, the mode flag and
\* the result slot as they were.
MalformedAnswers ==
  {"No audio_chunk provided", "Error decoding audio data", "No online_mode provided"}

C11_MalformedNoChange ==
  [][(ret'.code = 400 /\ ret'.body \in MalformedAnswers) =>
       /\ audio_chunk_queue' = audio_chunk_queue
       /\ web_online_mode' = web_online_mode
       /\ latest_transcription_result' = latest_transcription_result
       /\ hpc' = hpc]_vars

C11_Witness ==
  /\ ret.code = 400
  /\ ret.body = "No online_mode provided"
  /\ web_online_mode
  /\ audio_chunk_queue # <<>>
  /\ latest_transcription_result.status = "success"

\* ---- C12 ---------------------------------------------------------------------------
\* C12: when a POST /mode call is followed at once by a second call with the same
\* body, the second call ends with the mode flag, the queue and the result slot
\* as the first call left them, and with the same response.
C12_ModeIdempotent ==
  modeRun.n = 4 =>
    modeRun.snap = [mode |-> web_online_mode, queue |-> audio_chunk_queue,
                    slot |-> latest_transcription_result, resp |-> ret.body]

C12_Witness ==
  /\ modeRun.n = 4
  /\ modeRun.body = "false"
  /\ cleared # {}
  /\ latest_transcription_result.status = "success"

\* ---- C13 ---------------------------------------------------------------------------
\* C13: with the mode offline and the queue empty the worker, at its check under
\* the queue lock, suspends in the condition wait instead of going on through
\* its loop.
C13_OfflineWorkerWaits ==
  [][(worker_check /\ ~web_online_mode /\ audio_chunk_queue = <<>>) => wpc' = "w_wait"]_vars

\* ---- C14 ---------------------------------------------------------------------------
\* C14: a worker that is in the condition wait when the mode has gone offline (the
\* POST /mode calls have returned) eventually leaves the wait.
C14_OfflineWakes ==
  (wpc = "w_wait" /\ ~web_online_mode /\ ~ModeCallPending) ~> (wpc # "w_wait")

\* ---- C15 ---------------------------------------------------------------------------
\* C15: a dequeued chunk that meets the mode offline at the test of line 163 goes to
\* the sleep branch, is dropped there, and is never decoded afterwards; neither
\* step touches the result slot.
C15_DiscardOffline ==
  [][/\ (worker_test /\ current_audio_chunk # NoChunk /\ ~web_online_mode) =>
          /\ wpc' = "w_sleep"
          /\ attempts' = attempts
          /\ latest_transcription_result' = latest_transcription_result
     /\ (worker_sleep /\ current_audio_chunk # NoChunk) =>
          /\ current_audio_chunk' = NoChunk
          /\ attempts' = attempts
          /\ published' = published
          /\ latest_transcription_result' = latest_transcription_result
     /\ \A c \in Ids : (InSeq(c, dequeued) /\ c # current_audio_chunk.id) =>
                           attempts'[c] = attempts[c]]_vars

C15_Witness ==
  /\ wpc = "w_sleep"
  /\ Truthy(current_audio_chunk)
  /\ latest_transcription_result.status = "success"

\* ---- C16 ---------------------------------------------------------------------------
\* C16: texts are written to the slot in the order their chunks were dequeued, and
\* a success value in the slot is the one written last.
Pos(x, sq) == IF InSeq(x, sq) THEN CHOOSE i \in 1..Len(sq) : sq[i] = x ELSE 0

C16_NoStaleOverwrite ==
  /\ \A i, j \in 1..Len(published) :
       i < j => Pos(published[i], dequeued) < Pos(published[j], dequeued)
  /\ latest_transcription_result.status = "success" =>
       /\ published # <<>>
       /\ slotSrc = published[Len(published)]

C16_Witness ==
  /\ Len(published) >= 2
  /\ latest_transcription_result.status = "success"

\* ---- C17 ---------------------------------------------------------------------------
\* C17: while the worker decodes or transcribes a chunk neither lock is held, so
\* the locked block of any request can run.
C17_NoLockWhileRecognizing ==
  wpc = "w_decode" =>
    /\ audio_chunk_queue_lock # Worker
    /\ latest_transcription_lock # Worker
    /\ \A h \in Handlers : hpc[h] = "a_lock" => ENABLED receive_audio_append(h)
    /\ \A h \in Handlers : hpc[h] = "m_qlock" => ENABLED set_mode_clear(h)
    /\ \A h \in Handlers : hpc[h] = "idle" => ENABLED get_transcription(h)

C17_Witness ==
  /\ wpc = "w_decode"
  /\ \E h \in Handlers : hpc[h] = "a_lock"
  /\ \E h \in Handlers : hpc[h] = "m_qlock"

\* ---- C18 ---------------------------------------------------------------------------
\* C18: the slot holds {idle, ""} or {success, t} with t a text recognize_google
\* returned, and so does every response of GET /transcription; a failed attempt
\* shows in neither.
PollAnswer == ret.code = 200 /\ ret.body \notin {"Audio chunk received", "online_mode: true", "online_mode: false"}

C18_NoErrorSurfaced ==
  /\ \/ latest_transcription_result = IdleResult
     \/ \E t \in Texts : latest_transcription_result = SuccessResult(t)
  /\ PollAnswer =>
       \/ ret.body = "idle" /\ ret.text = ""
       \/ ret.body = "success" /\ ret.text \in Texts

C18_Witness ==
  /\ PollAnswer
  /\ ret.body = "idle"
  /\ failed # {}
  /\ published = <<>>

\* ---- C19 ---------------------------------------------------------------------------
\* C19: the two locks are never held together; a lock the worker holds is held
\* at a step that releases it and that can be taken; and a request that has
\* started can take its next step as soon as the worker holds no lock.
C19_NoDeadlock ==
  /\ ~(audio_chunk_queue_lock = Worker /\ latest_transcription_lock = Worker)
  /\ audio_chunk_queue_lock = Worker => (wpc = "w_check" /\ ENABLED worker_check)
  /\ latest_transcription_lock = Worker => (wpc = "w_publish" /\ ENABLED worker_publish)
  /\ \A h \in Handlers :
       (hpc[h] # "idle" /\ audio_chunk_queue_lock # Worker /\ latest_transcription_lock # Worker)
         => ENABLED Continue(h)

C19_Witness ==
  /\ audio_chunk_queue_lock = Worker
  /\ \E h \in Handlers : hpc[h] = "a_lock"
  /\ \E h \in Handlers : hpc[h] = "m_rlock"

\* ---- C20 ---------------------------------------------------------------------------
\* C20: a text in the slot, and every text ever written to it, comes from a chunk
\* that POST /audio appended (and answered 200 for) and that the worker popped; no
\* chunk is written twice.
C20_PublishedFromAccepted ==
  /\ latest_transcription_result.status = "success" =>
       /\ slotSrc \in 1..nextId
       /\ InSeq(slotSrc, dequeued)
       /\ slotSrc \notin cleared
       /\ attempts[slotSrc] = 1
  /\ \A i \in 1..Len(published) :
       /\ published[i] \in 1..nextId
       /\ InSeq(published[i], dequeued)
  /\ \A c \in Ids : Count(c, published) <= 1

C20_Witness ==
  /\ latest_transcription_result.status = "success"
  /\ slotSrc = 2
  /\ published = <<2>>
  /\ 1 \in failed

====
